---- MODULE Spec2Model ----
(***************************************************************************)
(* Model of hdx-scraper-cesa: the scrape -> discover countries -> filter   *)
(* -> generate dataset -> upload pipeline of src/hdx/scraper/cesa.          *)
(*                                                                         *)
(* Python objects that the code shares by reference (feature dicts and     *)
(* feature-collection dicts) live in two heaps, feats and colls, and are   *)
(* named by addresses; lists of features are sequences of addresses.       *)
(* JSON values are records [t, s, items]: t is the Python type, s the text *)
(* of a str, items the (key, value) pairs of a dict in insertion order.    *)
(***************************************************************************)
EXTENDS FiniteSets, Integers, Sequences, TLC

VARIABLES
    pc,                             \* position of main()
    build,                          \* what the installed geopandas does with zero rows
    requests,                       \* the requests issued so far, with the size of each answer
    feats,                          \* heap of feature objects
    colls,                          \* heap of feature-collection objects
    data_by_disaster_dict,          \* result of scrape_data (ordered dict)
    scraped,                        \* value of the scrape result when scrape_data returned
    country_iso2s,                  \* result of get_list_of_country_iso2s
    todo,                           \* countries the for loop of main has not yet visited
    country_iso2,                   \* loop variable of main
    country_data_by_disaster_dict,  \* result of filter_country (ordered dict)
    dataset,                        \* result of generate_dataset
    files,                          \* files written to temp_dir
    skipped,                        \* countries whose location the catalog refused
    uploaded,                       \* datasets created in HDX, in order
    error,                          \* the exception that ended the run, if any
    call                            \* a call of _flatten_dict or _flatten_data on its own

vars == <<call, pc, build, requests, feats, colls, data_by_disaster_dict, scraped,
          country_iso2s, todo, country_iso2, country_data_by_disaster_dict,
          dataset, files, skipped, uploaded, error>>

-----------------------------------------------------------------------------
(* Bounds *)

\* total number of features the API returns over the six requests of a run
MaxFeatures == 2

-----------------------------------------------------------------------------
(* JSON values and Python dicts *)

None == [t |-> "NoneType", s |-> "", items |-> <<>>]
Str(s) == [t |-> "str", s |-> s, items |-> <<>>]
Dict(items) == [t |-> "dict", s |-> "", items |-> items]
Item(k, v) == [k |-> k, v |-> v]

\* the value a raised KeyError stands for
KeyError == [t |-> "KeyError", s |-> "", items |-> <<>>]

DictHas(items, key) == \E i \in 1..Len(items) : items[i].k = key

DictGet(items, key) ==
    IF DictHas(items, key)
    THEN items[CHOOSE i \in 1..Len(items) : items[i].k = key].v
    ELSE KeyError

\* d[key] = value: an existing key keeps its position, a new key goes last
DictSet(items, key, value) ==
    IF DictHas(items, key)
    THEN [i \in 1..Len(items) |->
            IF items[i].k = key THEN Item(key, value) ELSE items[i]]
    ELSE Append(items, Item(key, value))

DictKeys(items) == [i \in 1..Len(items) |-> items[i].k]

-----------------------------------------------------------------------------
(* Class constants *)

_DISASTER_TYPE == <<"flood", "earthquake", "fire", "haze", "wind", "volcano">>

sep == "-"

-----------------------------------------------------------------------------
(* _flatten_dict and _flatten_data *)

\* _flatten_dict_inner without the test for the top level: the separator is
\* put before every key
RECURSIVE _flatten_dict_innerAlwaysSep(_, _, _)
_flatten_dict_innerAlwaysSep(flat_dict, dictionary, parent_key) ==
    IF dictionary = <<>> THEN flat_dict
    ELSE LET key == Head(dictionary).k
             value == Head(dictionary).v
             new_key == parent_key \o sep \o key
             flat1 == IF value.t = "dict"
                      THEN _flatten_dict_innerAlwaysSep(flat_dict, value.items, new_key)
                      ELSE DictSet(flat_dict, new_key, value)
         IN _flatten_dict_innerAlwaysSep(flat1, Tail(dictionary), parent_key)

RECURSIVE _flatten_dict_inner(_, _, _)
_flatten_dict_inner(flat_dict, dictionary, parent_key) ==
    IF dictionary = <<>> THEN flat_dict
    ELSE LET key == Head(dictionary).k
             value == Head(dictionary).v
             new_key == IF parent_key # "" THEN parent_key \o sep \o key ELSE key
             flat1 == IF value.t = "dict"
                      THEN _flatten_dict_inner(flat_dict, value.items, new_key)
                      ELSE DictSet(flat_dict, new_key, value)
         IN _flatten_dict_inner(flat1, Tail(dictionary), parent_key)

_flatten_dict(d) == _flatten_dict_inner(<<>>, d, "")

\* one pass of the loop body of _flatten_data on a feature
FlattenFeature(feature) ==
    [feature EXCEPT !.properties = _flatten_dict(feature.properties)]

\* _flatten_data whose loop ends one feature early, and returns what it visited
_flatten_dataSkipsLast(data) ==
    [data EXCEPT !.features =
        [i \in 1..(Len(data.features) - 1) |-> FlattenFeature(data.features[i])]]

\* data is a raw answer: [type, features: sequence of feature values]
_flatten_data(data) ==
    [data EXCEPT !.features =
        [i \in 1..Len(data.features) |-> FlattenFeature(data.features[i])]]

-----------------------------------------------------------------------------
(* Region codes *)

_get_instance_region_code_from_feature(feature) ==
    DictGet(feature.properties, "tags-instance_region_code")

\* s[:2]
Prefix2(s) == IF Len(s) <= 2 THEN s ELSE SubSeq(s, 1, 2)

\* s.startswith(p)
startswith(s, p) == Len(p) <= Len(s) /\ SubSeq(s, 1, Len(p)) = p

-----------------------------------------------------------------------------
(* What the API can answer *)

\* the region codes of the reports: full codes, a code cut short, null
RegionCodes == {Str("ID-JT"), Str("PH-00"), Str("I"), None}

Geometry == [type |-> "Point", coordinates |-> <<106, -6>>]

\* a report as the API sends it: properties nested
RawFeature(code) ==
    [type |-> "Feature",
     geometry |-> Geometry,
     properties |-> <<Item("pkey", Str("1")),
                      Item("tags", Dict(<<Item("instance_region_code", code)>>))>>]

\* a report whose tags hold no region code at all
RawFeatureNoCode ==
    [type |-> "Feature",
     geometry |-> Geometry,
     properties |-> <<Item("pkey", Str("1")), Item("tags", Dict(<<>>))>>]

RawFeatures == {RawFeature(code) : code \in RegionCodes} \cup {RawFeatureNoCode}

\* the "result" of an answer holding at most n features
Responses(n) ==
    {[type |-> "FeatureCollection", features |-> fs] :
        fs \in UNION {[1..k -> RawFeatures] : k \in 0..n}}

-----------------------------------------------------------------------------
(* Heaps *)

EmptyHeap == [a \in {} |-> None]

\* the lowest free address of heap h
Alloc(h) ==
    CHOOSE a \in 1..(Cardinality(DOMAIN h) + 1) :
        a \notin DOMAIN h /\ \A b \in 1..(a - 1) : b \in DOMAIN h

HeapPut(h, a, obj) == [b \in DOMAIN h \cup {a} |-> IF b = a THEN obj ELSE h[b]]

\* objects are created one after the other: [heap, addrs]
RECURSIVE NewObjects(_, _)
NewObjects(h, objs) ==
    IF objs = <<>> THEN [heap |-> h, addrs |-> <<>>]
    ELSE LET a == Alloc(h)
             rest == NewObjects(HeapPut(h, a, Head(objs)), Tail(objs))
         IN [heap |-> rest.heap, addrs |-> <<a>> \o rest.addrs]

Range(seq) == {seq[i] : i \in 1..Len(seq)}

\* reference counting: an object no dict or list refers to any more is freed
Collect(fs, cs, roots) ==
    LET liveColls == {roots[i].v : i \in 1..Len(roots)}
        liveFeats == UNION {Range(cs[a].features) : a \in liveColls}
    IN [feats |-> [a \in DOMAIN fs \cap liveFeats |-> fs[a]],
        colls |-> [a \in DOMAIN cs \cap liveColls |-> cs[a]]]

\* the value of an ordered dict of collections, references followed
DeepValue(fs, cs, dd) ==
    [i \in 1..Len(dd) |->
        [k |-> dd[i].k,
         type |-> cs[dd[i].v].type,
         features |-> [j \in 1..Len(cs[dd[i].v].features) |->
                          fs[cs[dd[i].v].features[j]]]]]

-----------------------------------------------------------------------------
(* Cesa.scrape_data: the body of its loop for one disaster type *)

\* ScrapeOne without the test for an answer of no features
ScrapeOneKeepsEmpty(fs, cs, dd, disaster_type, data) ==
    LET flat == _flatten_data(data)
        nf == NewObjects(fs, flat.features)
        a == Alloc(cs)
    IN [feats |-> nf.heap,
        colls |-> HeapPut(cs, a, [type |-> flat.type, features |-> nf.addrs]),
        dict |-> DictSet(dd, disaster_type, a)]

\* data is the parsed "result" of the answer; returns [feats, colls, dict]
ScrapeOne(fs, cs, dd, disaster_type, data) ==
    IF data.features = <<>>
    THEN [feats |-> fs, colls |-> cs, dict |-> dd]
    ELSE LET flat == _flatten_data(data)
             nf == NewObjects(fs, flat.features)
             a == Alloc(cs)
         IN [feats |-> nf.heap,
             colls |-> HeapPut(cs, a, [type |-> flat.type, features |-> nf.addrs]),
             dict |-> DictSet(dd, disaster_type, a)]

-----------------------------------------------------------------------------
(* get_list_of_country_iso2s *)

\* the inner loop over data["features"]: [exc, value]
RECURSIVE CountriesOfFeatures(_, _, _)
CountriesOfFeatures(fs, addrs, iso2s) ==
    IF addrs = <<>> THEN [exc |-> "", value |-> iso2s]
    ELSE LET code == _get_instance_region_code_from_feature(fs[Head(addrs)])
         IN IF code.t = "KeyError"
            THEN [exc |-> "KeyError", value |-> {}]
            ELSE IF code.t # "str"
            THEN CountriesOfFeatures(fs, Tail(addrs), iso2s)
            ELSE CountriesOfFeatures(fs, Tail(addrs), iso2s \cup {Prefix2(code.s)})

RECURSIVE CountriesOfDict(_, _, _, _)
CountriesOfDict(fs, cs, dd, iso2s) ==
    IF dd = <<>> THEN [exc |-> "", value |-> iso2s]
    ELSE LET r == CountriesOfFeatures(fs, cs[Head(dd).v].features, iso2s)
         IN IF r.exc # "" THEN r
            ELSE CountriesOfDict(fs, cs, Tail(dd), r.value)

get_list_of_country_iso2s(fs, cs, dd) == CountriesOfDict(fs, cs, dd, {})

-----------------------------------------------------------------------------
(* filter_country *)

\* FilteredFeatures comparing the region code with == instead of startswith
RECURSIVE FilteredFeaturesEqual(_, _, _)
FilteredFeaturesEqual(fs, addrs, iso2) ==
    IF addrs = <<>> THEN [exc |-> "", value |-> <<>>]
    ELSE LET code == _get_instance_region_code_from_feature(fs[Head(addrs)])
             rest == FilteredFeaturesEqual(fs, Tail(addrs), iso2)
         IN IF code.t = "KeyError" THEN [exc |-> "KeyError", value |-> <<>>]
            ELSE IF rest.exc # "" THEN rest
            ELSE IF code.t # "NoneType" /\ code.s = iso2
            THEN [exc |-> "", value |-> <<Head(addrs)>> \o rest.value]
            ELSE rest

\* FilteredFeatures with "is None or" in place of "is not None and"
RECURSIVE FilteredFeaturesNoneMatches(_, _, _)
FilteredFeaturesNoneMatches(fs, addrs, iso2) ==
    IF addrs = <<>> THEN [exc |-> "", value |-> <<>>]
    ELSE LET code == _get_instance_region_code_from_feature(fs[Head(addrs)])
             rest == FilteredFeaturesNoneMatches(fs, Tail(addrs), iso2)
         IN IF code.t = "KeyError" THEN [exc |-> "KeyError", value |-> <<>>]
            ELSE IF rest.exc # "" THEN rest
            ELSE IF code.t = "NoneType" \/ startswith(code.s, iso2)
            THEN [exc |-> "", value |-> <<Head(addrs)>> \o rest.value]
            ELSE rest

\* the list comprehension: [exc, value]
RECURSIVE FilteredFeatures(_, _, _)
FilteredFeatures(fs, addrs, iso2) ==
    IF addrs = <<>> THEN [exc |-> "", value |-> <<>>]
    ELSE LET code == _get_instance_region_code_from_feature(fs[Head(addrs)])
             rest == FilteredFeatures(fs, Tail(addrs), iso2)
         IN IF code.t = "KeyError" THEN [exc |-> "KeyError", value |-> <<>>]
            ELSE IF rest.exc # "" THEN rest
            ELSE IF code.t # "NoneType" /\ startswith(code.s, iso2)
            THEN [exc |-> "", value |-> <<Head(addrs)>> \o rest.value]
            ELSE rest

\* deepcopy(data): a new collection object holding new feature objects
deepcopy(fs, cs, a) ==
    LET nf == NewObjects(fs, [i \in 1..Len(cs[a].features) |-> fs[cs[a].features[i]]])
        b == Alloc(cs)
    IN [feats |-> nf.heap,
        colls |-> HeapPut(cs, b, [type |-> cs[a].type, features |-> nf.addrs]),
        addr |-> b]

\* StoreFiltered without the deepcopy: the new dict holds the very
\* collection of the input, whose "features" is then rebound
StoreFilteredAliased(fs, cs, out, disaster_type, a, filtered_features) ==
    [feats |-> fs,
     colls |-> [cs EXCEPT ![a].features = filtered_features],
     dict |-> DictSet(out, disaster_type, a)]

\* StoreFiltered that stores nothing for an empty filtered list
StoreFilteredDropsEmpty(fs, cs, out, disaster_type, a, filtered_features) ==
    IF filtered_features = <<>>
    THEN [feats |-> fs, colls |-> cs, dict |-> out]
    ELSE LET cp == deepcopy(fs, cs, a)
         IN [feats |-> cp.feats,
             colls |-> [cp.colls EXCEPT ![cp.addr].features = filtered_features],
             dict |-> DictSet(out, disaster_type, cp.addr)]

\* the two assignments that end the loop body: the copy goes into the new
\* dict and its "features" is rebound to the filtered list
StoreFiltered(fs, cs, out, disaster_type, a, filtered_features) ==
    LET cp == deepcopy(fs, cs, a)
    IN [feats |-> cp.feats,
        colls |-> [cp.colls EXCEPT ![cp.addr].features = filtered_features],
        dict |-> DictSet(out, disaster_type, cp.addr)]

\* the loop over data_by_disaster_dict.items(); rest is what is left of it,
\* out the dict built so far: [exc, feats, colls, dict]
RECURSIVE FilterLoop(_, _, _, _, _, _)
FilterLoop(fs, cs, dd, rest, out, iso2) ==
    IF rest = <<>> THEN [exc |-> "", feats |-> fs, colls |-> cs, dict |-> out]
    ELSE LET ff == FilteredFeatures(fs, cs[Head(rest).v].features, iso2)
             st == StoreFiltered(fs, cs, out, Head(rest).k, Head(rest).v, ff.value)
             gc == Collect(st.feats, st.colls, dd \o st.dict)
         IN IF ff.exc # ""
            THEN [exc |-> ff.exc, feats |-> fs, colls |-> cs, dict |-> <<>>]
            ELSE FilterLoop(gc.feats, gc.colls, dd, Tail(rest), st.dict, iso2)

filter_country(fs, cs, dd, iso2) == FilterLoop(fs, cs, dd, dd, <<>>, iso2)

-----------------------------------------------------------------------------
(* Cesa.generate_dataset *)

Upper == "ABCDEFGHIJKLMNOPQRSTUVWXYZ"
Lower == "abcdefghijklmnopqrstuvwxyz"

LowerChar(c) ==
    IF \E j \in 1..Len(Upper) : SubSeq(Upper, j, j) = c
    THEN LET j == CHOOSE j \in 1..Len(Upper) : SubSeq(Upper, j, j) = c
         IN SubSeq(Lower, j, j)
    ELSE c

\* str.lower()
RECURSIVE lower(_)
lower(s) ==
    IF Len(s) = 0 THEN s
    ELSE LowerChar(SubSeq(s, 1, 1)) \o lower(SubSeq(s, 2, Len(s)))

\* Country.get_iso3_from_iso2: None for what is no ISO2 code
get_iso3_from_iso2(iso2) ==
    CASE iso2 = "ID" -> Str("IDN")
      [] iso2 = "PH" -> Str("PHL")
      [] OTHER -> None

\* Country.get_country_name_from_iso2
get_country_name_from_iso2(iso2) ==
    CASE iso2 = "ID" -> Str("Indonesia")
      [] iso2 = "PH" -> Str("Philippines")
      [] OTHER -> None

\* how an f-string formats a value
Format(v) == IF v.t = "str" THEN v.s ELSE "None"

\* slugify of an ASCII text of words: lower case, words joined with "-"
slugify(words) == lower(words[1]) \o
    (IF Len(words) = 1 THEN "" ELSE
        LET RECURSIVE tail(_)
            tail(i) == IF i > Len(words) THEN ""
                       ELSE "-" \o lower(words[i]) \o tail(i + 1)
        IN tail(2))

NoDataset == [t |-> "NoneType", name |-> "", title |-> "", location |-> "",
              resources |-> <<>>]

Resource(name, description, format) ==
    [name |-> name, description |-> description, format |-> format,
     file_to_upload |-> name]

\* Dataset.add_update_resource: a resource of that name is replaced where
\* it stands, a new one goes last
add_update_resource(resources, resource) ==
    IF \E i \in 1..Len(resources) : resources[i].name = resource.name
    THEN [i \in 1..Len(resources) |->
            IF resources[i].name = resource.name THEN resource ELSE resources[i]]
    ELSE Append(resources, resource)

_create_geojson_resource(basename, resource_description) ==
    [resource |-> Resource(basename \o ".geojson", resource_description, "geojson"),
     files |-> {basename \o ".geojson"}]

_create_shapefile_resource(basename, resource_description) ==
    [resource |-> Resource(basename \o ".shp.zip", resource_description, "SHP"),
     files |-> {basename \o "_shapefiles/" \o basename \o ext :
                    ext \in {".shp", ".shx", ".dbf"}}
               \cup {basename \o ".shp.zip"}]

\* ResourceLoop creating and attaching the shapefile archive before the geojson
RECURSIVE ResourceLoopShapefileFirst(_, _, _, _, _, _, _)
ResourceLoopShapefileFirst(cs, rest, country_iso3, country_name, resources, written, zero_rows) ==
    IF rest = <<>>
    THEN [exc |-> "", resources |-> resources, files |-> written]
    ELSE LET disaster_type == Head(rest).k
             data == cs[Head(rest).v]
             basename == disaster_type \o "_reports_" \o lower(country_iso3.s)
             resource_description ==
                 "All current " \o disaster_type \o " reports for "
                     \o Format(country_name)
             geojson == _create_geojson_resource(basename, resource_description)
             shapefile == _create_shapefile_resource(basename, resource_description)
         IN IF country_iso3.t # "str"
            THEN [exc |-> "AttributeError", resources |-> resources, files |-> written]
            ELSE IF data.features = <<>> /\ zero_rows = "raises"
            THEN [exc |-> "ValueError", resources |-> resources, files |-> written]
            ELSE ResourceLoopShapefileFirst(cs, Tail(rest), country_iso3, country_name,
                     add_update_resource(
                         add_update_resource(resources, shapefile.resource),
                         geojson.resource),
                     written \cup geojson.files \cup shapefile.files, zero_rows)

\* the loop over country_data_by_disaster_dict.items(); zero_rows is what
\* GeoDataFrame.to_file does with a frame of no rows: "raises" or "writes"
RECURSIVE ResourceLoop(_, _, _, _, _, _, _)
ResourceLoop(cs, rest, country_iso3, country_name, resources, written, zero_rows) ==
    IF rest = <<>>
    THEN [exc |-> "", resources |-> resources, files |-> written]
    ELSE LET disaster_type == Head(rest).k
             data == cs[Head(rest).v]
             basename == disaster_type \o "_reports_" \o lower(country_iso3.s)
             resource_description ==
                 "All current " \o disaster_type \o " reports for "
                     \o Format(country_name)
             geojson == _create_geojson_resource(basename, resource_description)
             shapefile == _create_shapefile_resource(basename, resource_description)
         IN IF country_iso3.t # "str"
            THEN [exc |-> "AttributeError", resources |-> resources, files |-> written]
            ELSE IF data.features = <<>> /\ zero_rows = "raises"
            THEN [exc |-> "ValueError", resources |-> resources, files |-> written]
            ELSE ResourceLoop(cs, Tail(rest), country_iso3, country_name,
                     add_update_resource(
                         add_update_resource(resources, geojson.resource),
                         shapefile.resource),
                     written \cup geojson.files \cup shapefile.files, zero_rows)

\* location is what Dataset.add_country_location does: "ok" or "HDXError";
\* returns [exc, dataset, files]
generate_dataset(cs, country_data, iso2, location, zero_rows) ==
    LET country_iso3 == get_iso3_from_iso2(iso2)
        country_name == get_country_name_from_iso2(iso2)
        title == Format(country_name) \o ": CESA Disaster Reports"
        slugified_name ==
            slugify(<<"CESA", "Disaster", "Reports", "for", Format(country_iso3)>>)
        loop == ResourceLoop(cs, country_data, country_iso3, country_name,
                             <<>>, {}, zero_rows)
    IN IF location = "HDXError"
       THEN [exc |-> "", dataset |-> NoDataset, files |-> {}]
       ELSE [exc |-> loop.exc,
             dataset |-> [t |-> "Dataset", name |-> slugified_name, title |-> title,
                          location |-> Format(country_iso3),
                          resources |-> loop.resources],
             files |-> loop.files]

-----------------------------------------------------------------------------
(* main *)

\* no call of the flatteners on its own is under way
NoCall == [fn |-> "", step |-> 0, d |-> <<>>, data |-> <<>>, ret |-> <<>>,
           again |-> <<>>]

Init ==
    /\ pc = "scrape"
    /\ build \in {"raises", "writes"}
    /\ requests = <<>>
    /\ feats = EmptyHeap
    /\ colls = EmptyHeap
    /\ data_by_disaster_dict = <<>>
    /\ scraped = <<>>
    /\ country_iso2s = {}
    /\ todo = {}
    /\ country_iso2 = ""
    /\ country_data_by_disaster_dict = <<>>
    /\ dataset = NoDataset
    /\ files = {}
    /\ skipped = {}
    /\ uploaded = <<>>
    /\ error = ""
    /\ call = NoCall

\* one pass of the loop of scrape_data; after the sixth, scrape_data returns
Fetch ==
    /\ pc = "scrape"
    /\ Len(requests) < Len(_DISASTER_TYPE)
    /\ \E data \in Responses(MaxFeatures - Cardinality(DOMAIN feats)) :
         LET disaster_type == _DISASTER_TYPE[Len(requests) + 1]
             r == ScrapeOne(feats, colls, data_by_disaster_dict, disaster_type, data)
             last == Len(requests) + 1 = Len(_DISASTER_TYPE)
         IN /\ requests' = Append(requests,
                    [disaster |-> disaster_type, rows |-> Len(data.features)])
            /\ feats' = r.feats
            /\ colls' = r.colls
            /\ data_by_disaster_dict' = r.dict
            /\ pc' = IF last THEN "discover" ELSE "scrape"
            /\ scraped' = IF last THEN DeepValue(r.feats, r.colls, r.dict)
                          ELSE scraped
    /\ UNCHANGED <<call, build, country_iso2s, todo, country_iso2,
                   country_data_by_disaster_dict, dataset, files, skipped,
                   uploaded, error>>

\* FetchFails with the exception caught in scrape_data, which returns what
\* it has scraped so far
FetchFailsReturnsPartial ==
    /\ pc = "scrape"
    /\ Len(requests) < Len(_DISASTER_TYPE)
    /\ requests' = Append(requests,
            [disaster |-> _DISASTER_TYPE[Len(requests) + 1], rows |-> -1])
    /\ pc' = "discover"
    /\ scraped' = DeepValue(feats, colls, data_by_disaster_dict)
    /\ UNCHANGED <<call, build, feats, colls, data_by_disaster_dict, country_iso2s,
                   todo, country_iso2, country_data_by_disaster_dict, dataset,
                   files, skipped, uploaded, error>>

\* download_json raises: nothing catches it, the run ends
FetchFails ==
    /\ pc = "scrape"
    /\ Len(requests) < Len(_DISASTER_TYPE)
    /\ requests' = Append(requests,
            [disaster |-> _DISASTER_TYPE[Len(requests) + 1], rows |-> -1])
    /\ feats' = EmptyHeap
    /\ colls' = EmptyHeap
    /\ data_by_disaster_dict' = <<>>
    /\ pc' = "error"
    /\ error' = "DownloadError"
    /\ UNCHANGED <<call, build, scraped, country_iso2s, todo, country_iso2,
                   country_data_by_disaster_dict, dataset, files, skipped,
                   uploaded>>

Discover ==
    /\ pc = "discover"
    /\ LET r == get_list_of_country_iso2s(feats, colls, data_by_disaster_dict)
       IN IF r.exc # ""
          THEN /\ pc' = "error"
               /\ error' = r.exc
               /\ UNCHANGED <<country_iso2s, todo>>
          ELSE /\ pc' = "loop"
               /\ country_iso2s' = r.value
               /\ todo' = r.value
               /\ UNCHANGED error
    /\ UNCHANGED <<call, build, requests, feats, colls, data_by_disaster_dict, scraped,
                   country_iso2, country_data_by_disaster_dict, dataset, files,
                   skipped, uploaded>>

\* the for loop takes the next country, in the set's order, and filters
Filter ==
    /\ pc = "loop"
    /\ \E c \in todo :
         LET r == filter_country(feats, colls, data_by_disaster_dict, c)
         IN /\ country_iso2' = c
            /\ todo' = todo \ {c}
            /\ IF r.exc # ""
               THEN /\ pc' = "error"
                    /\ error' = r.exc
                    /\ UNCHANGED <<feats, colls, country_data_by_disaster_dict>>
               ELSE /\ pc' = "generate"
                    /\ feats' = r.feats
                    /\ colls' = r.colls
                    /\ country_data_by_disaster_dict' = r.dict
                    /\ UNCHANGED error
    /\ UNCHANGED <<call, build, requests, data_by_disaster_dict, scraped, country_iso2s,
                   dataset, files, skipped, uploaded>>

Generate ==
    /\ pc = "generate"
    /\ \E location \in {"ok", "HDXError"} :
         LET r == generate_dataset(colls, country_data_by_disaster_dict,
                                   country_iso2, location, build)
         IN /\ files' = files \cup r.files
            /\ IF r.exc # ""
               THEN /\ pc' = "error"
                    /\ error' = r.exc
                    /\ UNCHANGED <<dataset, skipped>>
               ELSE /\ pc' = "upload"
                    /\ dataset' = r.dataset
                    /\ skipped' = IF location = "HDXError"
                                  THEN skipped \cup {country_iso2} ELSE skipped
                    /\ UNCHANGED error
    /\ UNCHANGED <<call, build, requests, feats, colls, data_by_disaster_dict, scraped,
                   country_iso2s, todo, country_iso2,
                   country_data_by_disaster_dict, uploaded>>

\* Upload with create_in_hdx left for after the loop: the next country is
\* taken up while this one's dataset is not in HDX
UploadDeferred ==
    /\ pc = "upload"
    /\ IF dataset.t = "NoneType"
       THEN /\ pc' = "error"
            /\ error' = "AttributeError"
       ELSE /\ pc' = "loop"
            /\ UNCHANGED error
    /\ UNCHANGED <<call, build, requests, feats, colls, data_by_disaster_dict, scraped,
                   country_iso2s, todo, country_iso2,
                   country_data_by_disaster_dict, dataset, files, skipped,
                   uploaded>>

\* dataset.update_from_yaml and dataset.create_in_hdx
Upload ==
    /\ pc = "upload"
    /\ IF dataset.t = "NoneType"
       THEN /\ pc' = "error"
            /\ error' = "AttributeError"
            /\ UNCHANGED uploaded
       ELSE /\ pc' = "loop"
            /\ uploaded' = Append(uploaded, dataset)
            /\ UNCHANGED error
    /\ UNCHANGED <<call, build, requests, feats, colls, data_by_disaster_dict, scraped,
                   country_iso2s, todo, country_iso2,
                   country_data_by_disaster_dict, dataset, files, skipped>>

\* the for loop is exhausted: main returns
Finish ==
    /\ pc = "loop"
    /\ todo = {}
    /\ pc' = "done"
    /\ UNCHANGED <<call, build, requests, feats, colls, data_by_disaster_dict, scraped,
                   country_iso2s, todo, country_iso2,
                   country_data_by_disaster_dict, dataset, files, skipped,
                   uploaded, error>>

Next == Fetch \/ FetchFails \/ Discover \/ Filter \/ Generate \/ Upload \/ Finish

Spec == Init /\ [][Next]_vars

-----------------------------------------------------------------------------
(* Vocabulary of the properties *)

\* scrape_data has returned
ScrapeDone == pc \notin {"scrape"} /\ error # "DownloadError"

\* the country codes filter_country is tried with: the codes discovery can
\* return, the empty text, a full region code and a country of no report
CountryCodes == {"", "I", "ID", "PH", "ID-JT", "SG"}

HasKey(dd, key) == \E i \in 1..Len(dd) : dd[i].k = key

\* the features (addresses) of the collection stored under key
FeaturesOf(cs, dd, key) ==
    cs[dd[CHOOSE i \in 1..Len(dd) : dd[i].k = key].v].features

\* the region code of the feature at address a is a text
HasCode(fs, a) == DictHas(fs[a].properties, "tags-instance_region_code")
                    /\ DictGet(fs[a].properties, "tags-instance_region_code").t = "str"

CodeOf(fs, a) == DictGet(fs[a].properties, "tags-instance_region_code").s

\* sub can be had from seq by deleting elements
RECURSIVE IsSubsequence(_, _)
IsSubsequence(sub, seq) ==
    IF sub = <<>> THEN TRUE
    ELSE IF seq = <<>> THEN FALSE
    ELSE IF Head(sub) = Head(seq) THEN IsSubsequence(Tail(sub), Tail(seq))
    ELSE IsSubsequence(sub, Tail(seq))

NoRepeat(seq) == \A i, j \in 1..Len(seq) : seq[i] = seq[j] => i = j

\* the position of a disaster type in the enumeration
TypeIndex(t) == CHOOSE i \in 1..Len(_DISASTER_TYPE) : _DISASTER_TYPE[i] = t

-----------------------------------------------------------------------------
(* C1 *)

\* C1: when scrape_data has returned, a disaster type is a key of its result
\* if and only if the answer to that type's request held at least one
\* feature, and the keys stand in the order of _DISASTER_TYPE.
C1_ScrapeKeys ==
    ScrapeDone =>
        /\ Len(requests) = Len(_DISASTER_TYPE)
        /\ \A i \in 1..Len(_DISASTER_TYPE) :
              HasKey(data_by_disaster_dict, _DISASTER_TYPE[i])
                  <=> requests[i].rows >= 1
        /\ \A i, j \in 1..Len(data_by_disaster_dict) :
              i < j => TypeIndex(data_by_disaster_dict[i].k)
                          < TypeIndex(data_by_disaster_dict[j].k)

\* a scrape in which types with data lie between types without
C1_Witness ==
    /\ pc = "discover"
    /\ DictKeys(data_by_disaster_dict) = <<"earthquake", "wind">>

-----------------------------------------------------------------------------------------------------------------------------------------------------
(* C2 *)

\* scrape_data has just returned: every scrape result passes this point
Scraped == pc = "discover"

\* filter_country has just returned to main, for country_iso2
Filtered == pc = "generate"

\* (fs, cs, out) is for country code c what C2 says of the scrape result
ExactFor(fs, cs, out, c) ==
    \A i \in 1..Len(data_by_disaster_dict) :
        LET key == data_by_disaster_dict[i].k
            orig == colls[data_by_disaster_dict[i].v].features
            list == FeaturesOf(cs, out, key)
        IN /\ IsSubsequence(list, orig)
           /\ NoRepeat(list)
           /\ \A j \in 1..Len(list) : fs[list[j]] = feats[list[j]]
           /\ Range(list) =
                {a \in Range(orig) :
                    HasCode(feats, a) /\ startswith(CodeOf(feats, a), c)}

\* C2: for every scrape result and every country code c, each feature list
\* filter_country returns is a subsequence of that type's original list,
\* without repetition and with the features unchanged, and holds exactly the
\* original features whose region code is a text that starts with c.
C2_FilterExact ==
    /\ Scraped =>
          \A c \in CountryCodes :
              LET r == filter_country(feats, colls, data_by_disaster_dict, c)
              IN r.exc = "" => ExactFor(r.feats, r.colls, r.dict, c)
    /\ Filtered =>
          ExactFor(feats, colls, country_data_by_disaster_dict, country_iso2)

\* main has filtered a list of two features down to the second of them
C2_Witness ==
    /\ Filtered
    /\ \E i \in 1..Len(data_by_disaster_dict) :
          LET orig == colls[data_by_disaster_dict[i].v].features
              list == colls[country_data_by_disaster_dict[i].v].features
          IN Len(orig) = 2 /\ list = <<orig[2]>>

-----------------------------------------------------------------------------
(* C3 *)

\* C3: filter_country leaves its input as it was: for every scrape result
\* and country code the scraped mapping has the same keys, feature lists and
\* feature contents after the call as before, and after any number of calls
\* of a run it still has the value scrape_data returned.
C3_InputUnchanged ==
    /\ ScrapeDone => DeepValue(feats, colls, data_by_disaster_dict) = scraped
    /\ Scraped =>
          \A c \in CountryCodes :
              LET r == filter_country(feats, colls, data_by_disaster_dict, c)
              IN r.exc = "" =>
                    DeepValue(r.feats, r.colls, data_by_disaster_dict)
                        = DeepValue(feats, colls, data_by_disaster_dict)

\* the second call of a run has returned, and it took a feature out
C3_Witness ==
    /\ Filtered
    /\ Cardinality(country_iso2s \ todo) = 2
    /\ \E i \in 1..Len(data_by_disaster_dict) :
          colls[country_data_by_disaster_dict[i].v].features
              # colls[data_by_disaster_dict[i].v].features

-----------------------------------------------------------------------------
(* C4 *)

\* C4: the mapping filter_country returns has the keys of its input, in the
\* same order, also for a type none of whose features match; the scrape
\* result itself has no key for a type without features.
C4_KeysKept ==
    /\ Scraped =>
          \A c \in CountryCodes :
              LET r == filter_country(feats, colls, data_by_disaster_dict, c)
              IN r.exc = "" => DictKeys(r.dict) = DictKeys(data_by_disaster_dict)
    /\ Filtered =>
          DictKeys(country_data_by_disaster_dict) = DictKeys(data_by_disaster_dict)
    /\ ScrapeDone =>
          /\ \A i \in 1..Len(data_by_disaster_dict) :
                colls[data_by_disaster_dict[i].v].features # <<>>
          /\ \A i \in 1..Len(requests) :
                requests[i].rows = 0
                    => ~HasKey(data_by_disaster_dict, requests[i].disaster)

\* a type is kept with an empty list while another type was scraped empty
C4_Witness ==
    /\ Filtered
    /\ \E i \in 1..Len(country_data_by_disaster_dict) :
          colls[country_data_by_disaster_dict[i].v].features = <<>>
    /\ \E i \in 1..Len(requests) : requests[i].rows = 0

-----------------------------------------------------------------------------
(* C5 *)

\* every feature of the lists of (fs, cs, out) has a region code that is a text
AllCoded(fs, cs, out) ==
    \A i \in 1..Len(out) : \A a \in Range(cs[out[i].v].features) : HasCode(fs, a)

\* C5: a feature whose region code is null or missing is in no feature list
\* of filter_country(data, c), for every country code c, the codes that
\* get_list_of_country_iso2s returns included.
C5_NoCountryExcluded ==
    /\ Scraped =>
          LET found == get_list_of_country_iso2s(feats, colls, data_by_disaster_dict)
          IN \A c \in CountryCodes \cup found.value :
                LET r == filter_country(feats, colls, data_by_disaster_dict, c)
                IN r.exc = "" => AllCoded(r.feats, r.colls, r.dict)
    /\ Filtered => AllCoded(feats, colls, country_data_by_disaster_dict)

\* main has filtered a scrape that holds a report with a null region code
C5_Witness ==
    /\ Filtered
    /\ \E a \in DOMAIN feats :
          _get_instance_region_code_from_feature(feats[a]) = None
    /\ AllCoded(feats, colls, country_data_by_disaster_dict)

-----
(* C6 *)

\* the features of the scrape result, over all disaster types
ScrapedFeatures ==
    UNION {Range(colls[data_by_disaster_dict[i].v].features) :
              i \in 1..Len(data_by_disaster_dict)}

\* a region code that is present and has the two characters of a country
WellFormed(fs, a) == HasCode(fs, a) /\ Len(CodeOf(fs, a)) >= 2

\* C6: the set get_list_of_country_iso2s returns is no larger than the set
\* of 2-character prefixes of the present, well-formed region codes of the
\* scrape result, and none of its elements is shorter than two characters.
C6_CountriesWellFormed ==
    Scraped =>
        LET r == get_list_of_country_iso2s(feats, colls, data_by_disaster_dict)
            prefixes == {SubSeq(CodeOf(feats, a), 1, 2) :
                            a \in {b \in ScrapedFeatures : WellFormed(feats, b)}}
        IN r.exc = "" =>
              /\ Cardinality(r.value) <= Cardinality(prefixes)
              /\ \A c \in r.value : Len(c) = 2

-----------------------------------------------------------------------------
(* C7 *)

\* C7: for a feature whose region code is null, missing or shorter than two
\* characters, discovery and filtering raise nothing and treat the feature
\* as one of no country: discovery returns the prefixes of the well-formed
\* codes alone and no country that is discovered gets the feature.
C7_MalformedIsNoCountry ==
    Scraped =>
        LET r == get_list_of_country_iso2s(feats, colls, data_by_disaster_dict)
        IN /\ r.exc = ""
           /\ r.value = {SubSeq(CodeOf(feats, a), 1, 2) :
                            a \in {b \in ScrapedFeatures : WellFormed(feats, b)}}
           /\ \A c \in r.value :
                 LET f == filter_country(feats, colls, data_by_disaster_dict, c)
                 IN /\ f.exc = ""
                    /\ \A i \in 1..Len(f.dict) :
                          \A a \in Range(f.colls[f.dict[i].v].features) :
                              WellFormed(f.feats, a)

-----------------------------------------------------------------------------
(* C8 *)

\* the disaster types whose filtered list holds a feature
TypesWithData ==
    {country_data_by_disaster_dict[i].k :
        i \in {j \in 1..Len(country_data_by_disaster_dict) :
                  colls[country_data_by_disaster_dict[j].v].features # <<>>}}

\* C8: generate_dataset packages only the disaster types whose filtered list
\* holds a feature: the dataset it returns has exactly two resources for each
\* such type and none for a type with an empty list, and an empty list never
\* reaches the packager.
C8_OnlyTypesWithData ==
    /\ error # "ValueError"
    /\ (pc = "upload" /\ dataset.t = "Dataset") =>
          /\ Len(dataset.resources) = 2 * Cardinality(TypesWithData)
          /\ \A i \in 1..Len(dataset.resources) :
                \E t \in TypesWithData :
                    dataset.resources[i].name \in
                        {t \o "_reports_" \o lower(dataset.location) \o ext :
                            ext \in {".geojson", ".shp.zip"}}

-----------------------------------------------------------------------------
(* C9 *)

\* the lower case of the ISO3 codes of the model
Iso3Lower(iso3) ==
    CASE iso3 = "IDN" -> "idn"
      [] iso3 = "PHL" -> "phl"
      [] OTHER -> "?"

\* the resources of ds are those of the disaster types ts, in that order,
\* for each type the geojson and then the shapefile archive
ResourcesFollow(ds, ts) ==
    /\ Len(ds.resources) = 2 * Len(ts)
    /\ \A k \in 1..Len(ts) :
          /\ ds.resources[2 * k - 1].name =
                ts[k] \o "_reports_" \o Iso3Lower(ds.location) \o ".geojson"
          /\ ds.resources[2 * k].name =
                ts[k] \o "_reports_" \o Iso3Lower(ds.location) \o ".shp.zip"

\* the enumeration restricted to a set of disaster types, for every such set
OrderedTypes ==
    {SelectSeq(_DISASTER_TYPE, LAMBDA t : t \in S) :
        S \in SUBSET Range(_DISASTER_TYPE)}

\* C9: in every dataset the pipeline produces the resources stand in the
\* order of _DISASTER_TYPE, restricted to the packaged types, and for each
\* type {disaster}_reports_{iso3}.geojson comes right before
\* {disaster}_reports_{iso3}.shp.zip, iso3 in lower case.
C9_ResourceOrder ==
    /\ (pc = "upload" /\ dataset.t = "Dataset") =>
          /\ ResourcesFollow(dataset, DictKeys(country_data_by_disaster_dict))
          /\ \E ts \in OrderedTypes : ResourcesFollow(dataset, ts)
    /\ \A i \in 1..Len(uploaded) :
          \E ts \in OrderedTypes : ResourcesFollow(uploaded[i], ts)

\* a dataset of two disaster types has been uploaded
C9_Witness ==
    /\ Len(uploaded) >= 1
    /\ Len(uploaded[1].resources) = 4
    /\ uploaded[1].resources[1].name = "earthquake_reports_idn.geojson"
    /\ uploaded[1].resources[4].name = "wind_reports_idn.shp.zip"

-----------------------------------------------------------------------------
(* C10 *)

\* C10: when the catalog refuses a country's location, generate_dataset
\* returns no dataset without raising and the run goes on: it does not end
\* in an error at that country, and when it ends every other discovered
\* country has been uploaded.
C10_SkipAndContinue ==
    /\ \A c \in skipped : ~(pc = "error" /\ country_iso2 = c)
    /\ pc = "done" =>
          Len(uploaded) = Cardinality(country_iso2s \ skipped)

-----------------------------------------------------------------------------
(* C11 *)

\* a request of the run met a transport failure
TransportFailed == \E i \in 1..Len(requests) : requests[i].rows = -1

\* C11: a transport failure on any request ends the run: the error leaves
\* scrape_data uncaught, the failed request is the last one issued, no
\* partial scrape result is returned, no country is discovered, packaged or
\* uploaded, and the run takes no further step.
C11_TransportFailureFatal ==
    TransportFailed =>
        /\ pc = "error"
        /\ error = "DownloadError"
        /\ requests[Len(requests)].rows = -1
        /\ \A i \in 1..(Len(requests) - 1) : requests[i].rows >= 0
        /\ data_by_disaster_dict = <<>>
        /\ country_iso2s = {}
        /\ country_data_by_disaster_dict = <<>>
        /\ dataset = NoDataset
        /\ files = {}
        /\ uploaded = <<>>
        /\ ~ENABLED Next

\* the third request failed after the first had brought data
C11_Witness ==
    /\ TransportFailed
    /\ Len(requests) = 3
    /\ requests[1].rows >= 1
    /\ pc = "error"

-----------------------------------------------------------------------------
(* The flatteners called on their own *)

\* number of items of a nested mapping, the items of nested mappings counted
MaxItems == 3

\* a list: no dict, so a leaf whatever it holds
List == [t |-> "list", s |-> "", items |-> <<>>]

\* keys, among them the empty key and a key that holds the separator
FlattenKeys == {"", "a", "a-a"}

LeafValues == {Str("1"), List}

\* the mappings of exactly n items; a dict has every key once
RECURSIVE DictsOfSize(_), ValuesOfSize(_)
DictsOfSize(n) ==
    IF n = 0 THEN {<<>>}
    ELSE UNION {
            LET values == ValuesOfSize(m)
                rests == DictsOfSize(n - 1 - m)
            IN UNION {{<<Item(k, v)>> \o rest :
                          k \in FlattenKeys \ Range(DictKeys(rest))} :
                      v \in values, rest \in rests} :
            m \in 0..(n - 1)}

ValuesOfSize(m) ==
    IF m = 0 THEN LeafValues \cup {Dict(<<>>)}
    ELSE {Dict(x) : x \in DictsOfSize(m)}

NestedDicts == UNION {DictsOfSize(n) : n \in 0..MaxItems}

Geometries == {Geometry, [type |-> "Point", coordinates |-> <<109, -7>>]}

\* properties as the API nests them, and one whose paths meet in one key
NestedProperties ==
    {RawFeature(Str("ID-JT")).properties,
     RawFeatureNoCode.properties,
     <<Item("a-b", Str("1")), Item("a", Dict(<<Item("b", Str("2"))>>))>>}

RawCollections ==
    {[type |-> "FeatureCollection", features |-> fs] :
        fs \in UNION {[1..k -> {[type |-> "Feature", geometry |-> g, properties |-> p] :
                                    g \in Geometries, p \in NestedProperties}] :
                      k \in 0..MaxFeatures}}

FlattenCalls ==
    {[NoCall EXCEPT !.fn = "_flatten_dict", !.d = d] : d \in NestedDicts}
        \cup {[NoCall EXCEPT !.fn = "_flatten_data", !.data = data] :
                data \in RawCollections}

mainvars == <<pc, build, requests, feats, colls, data_by_disaster_dict, scraped,
              country_iso2s, todo, country_iso2, country_data_by_disaster_dict,
              dataset, files, skipped, uploaded, error>>

InitFlatten ==
    /\ pc = "scrape"
    /\ build = "raises"
    /\ requests = <<>>
    /\ feats = EmptyHeap
    /\ colls = EmptyHeap
    /\ data_by_disaster_dict = <<>>
    /\ scraped = <<>>
    /\ country_iso2s = {}
    /\ todo = {}
    /\ country_iso2 = ""
    /\ country_data_by_disaster_dict = <<>>
    /\ dataset = NoDataset
    /\ files = {}
    /\ skipped = {}
    /\ uploaded = <<>>
    /\ error = ""
    /\ call \in FlattenCalls

CallFlattenDict ==
    /\ call.fn = "_flatten_dict"
    /\ call.step = 0
    /\ call' = [call EXCEPT !.step = 1, !.ret = _flatten_dict(call.d)]
    /\ UNCHANGED mainvars

\* the result is flattened once more
CallFlattenDictAgain ==
    /\ call.fn = "_flatten_dict"
    /\ call.step = 1
    /\ call' = [call EXCEPT !.step = 2, !.again = _flatten_dict(call.ret)]
    /\ UNCHANGED mainvars

CallFlattenData ==
    /\ call.fn = "_flatten_data"
    /\ call.step = 0
    /\ call' = [call EXCEPT !.step = 1, !.ret = _flatten_data(call.data)]
    /\ UNCHANGED mainvars

CallFlattenDataAgain ==
    /\ call.fn = "_flatten_data"
    /\ call.step = 1
    /\ call' = [call EXCEPT !.step = 2, !.again = _flatten_data(call.ret)]
    /\ UNCHANGED mainvars

NextFlatten ==
    CallFlattenDict \/ CallFlattenDictAgain \/ CallFlattenData \/ CallFlattenDataAgain

SpecFlatten == InitFlatten /\ [][NextFlatten]_vars

\* the leaves of a nested mapping, each with the keys that lead to it
RECURSIVE LeafEntries(_, _)
LeafEntries(d, path) ==
    UNION {IF d[i].v.t = "dict"
           THEN LeafEntries(d[i].v.items, Append(path, d[i].k))
           ELSE {[path |-> Append(path, d[i].k), v |-> d[i].v]} :
           i \in 1..Len(d)}

\* the keys of a path joined with "-"
RECURSIVE Join(_)
Join(path) ==
    IF Len(path) = 1 THEN path[1]
    ELSE path[1] \o "-" \o Join(Tail(path))

\* _flatten_dict has returned
DictFlattened == call.fn = "_flatten_dict" /\ call.step >= 1

\* _flatten_data has returned
DataFlattened == call.fn = "_flatten_data" /\ call.step >= 1

-----------------------------------------------------------------------------
(* C12 *)

\* C12: the result of _flatten_dict(d) holds, for each leaf of d (a value
\* that is no mapping, a list included), an entry whose key is the leaf's
\* path joined with "-" and whose value is the leaf, and no other entry.
C12_EntryPerLeaf ==
    DictFlattened =>
        /\ NoRepeat(DictKeys(call.ret))
        /\ Range(call.ret) =
              {Item(Join(e.path), e.v) : e \in LeafEntries(call.d, <<>>)}

-----------------------------------------------------------------------------
(* C13 *)

\* C13: the result of _flatten_dict has as many entries as its input has
\* leaves: no leaf is dropped and no two paths end in the same flat key.
C13_LeafCountKept ==
    DictFlattened =>
        Len(call.ret) = Cardinality(LeafEntries(call.d, <<>>))

-----------------------------------------------------------------------------
(* C14 *)

\* C14: _flatten_data returns a collection of the same type with as many
\* features as it got, in the same order; each feature keeps its type and
\* its geometry and has its properties replaced by their flattened form.
C14_FeaturesKept ==
    DataFlattened =>
        /\ call.ret.type = call.data.type
        /\ Len(call.ret.features) = Len(call.data.features)
        /\ \A i \in 1..Len(call.data.features) :
              /\ DOMAIN call.ret.features[i] = {"type", "geometry", "properties"}
              /\ call.ret.features[i].type = call.data.features[i].type
              /\ call.ret.features[i].geometry = call.data.features[i].geometry
              /\ call.ret.features[i].properties
                    = _flatten_dict(call.data.features[i].properties)

\* two features of different geometry, the properties of both changed
C14_Witness ==
    /\ DataFlattened
    /\ Len(call.data.features) = 2
    /\ call.data.features[1].geometry # call.data.features[2].geometry
    /\ \A i \in 1..2 :
          call.ret.features[i].properties # call.data.features[i].properties

-----------------------------------------------------------------------------
(* C15 *)

\* no value of the mapping is a mapping
IsFlat(d) == \A i \in 1..Len(d) : d[i].v.t # "dict"

\* C15: flattening a flattened mapping changes nothing; a mapping without
\* nesting is returned as it is and one without leaves gives the empty
\* mapping; _flatten_data applied twice gives what it gives applied once.
C15_Idempotent ==
    /\ (DictFlattened /\ call.step = 2) => call.again = call.ret
    /\ (DictFlattened /\ IsFlat(call.d)) => call.ret = call.d
    /\ (DictFlattened /\ LeafEntries(call.d, <<>>) = {}) => call.ret = <<>>
    /\ (DataFlattened /\ call.step = 2) => call.again = call.ret

\* a nested mapping of several leaves has been flattened twice
C15_Witness ==
    /\ DictFlattened
    /\ call.step = 2
    /\ ~IsFlat(call.d)
    /\ Len(call.ret) >= 2
    /\ call.again = call.ret

-----------------------------------------------------------------------------
(* C16 *)

\* the feature objects (addresses) of all collections of the mapping dd
FeatureObjects(cs, dd) ==
    UNION {Range(cs[dd[i].v].features) : i \in 1..Len(dd)}

\* C16: no feature record of the mapping filter_country returned shares
\* storage with a feature record of its input: no feature object is in a
\* returned collection and in a scraped collection.
C16_NoSharedStorage ==
    Filtered =>
        FeatureObjects(colls, country_data_by_disaster_dict)
            \cap FeatureObjects(colls, data_by_disaster_dict) = {}

-----------------------------------------------------------------------------
(* C17 *)

\* the countries whose pass of the loop of main has begun
Started == country_iso2s \ todo

\* file f is one of the files written for dataset ds: its name begins with
\* the basename of a resource of ds
FileOf(f, ds) ==
    \E i \in 1..Len(ds.resources) :
        /\ ds.resources[i].format = "geojson"
        /\ startswith(f, SubSeq(ds.resources[i].name, 1,
                                Len(ds.resources[i].name) - Len(".geojson")))

\* every file written so far is a file of a dataset that is in HDX
FilesAllUploaded ==
    \A f \in files : \E i \in 1..Len(uploaded) : FileOf(f, uploaded[i])

\* C17: a run is sequential. The requests are issued one after the other in
\* the order flood, earthquake, fire, haze, wind, volcano, never more than
\* six, and all six have returned before anything is discovered; while they
\* are issued no country is known, nothing is written and nothing uploaded.
\* A country is taken up only when every country before it has been
\* filtered, packaged and uploaded: between two countries every file written
\* is a file of an uploaded dataset, and while a country is packaged or
\* uploaded exactly that one country is not uploaded and the only files that
\* are of no uploaded dataset are its own.
C17_Sequential ==
    /\ Len(requests) <= 6
    /\ \A i \in 1..Len(requests) :
          requests[i].disaster =
              <<"flood", "earthquake", "fire", "haze", "wind", "volcano">>[i]
    /\ ScrapeDone =>
          /\ Len(requests) = 6
          /\ \A i \in 1..6 : requests[i].rows >= 0
    /\ pc = "scrape" =>
          /\ country_iso2s = {}
          /\ country_data_by_disaster_dict = <<>>
          /\ dataset = NoDataset
          /\ files = {}
          /\ uploaded = <<>>
    /\ pc = "discover" => (todo = {} /\ files = {} /\ uploaded = <<>>)
    /\ pc \in {"loop", "done"} =>
          /\ Len(uploaded) = Cardinality(Started)
          /\ FilesAllUploaded
    /\ pc \in {"generate", "upload"} =>
          /\ country_iso2 \in Started
          /\ Len(uploaded) = Cardinality(Started) - 1
    /\ pc = "generate" => FilesAllUploaded
    /\ pc = "upload" =>
          \A f \in files :
              \/ \E i \in 1..Len(uploaded) : FileOf(f, uploaded[i])
              \/ dataset.t # "NoneType" /\ FileOf(f, dataset)

\* the second country is being packaged: the first one's files are written
\* and its dataset is uploaded
C17_Witness ==
    /\ pc = "upload"
    /\ Len(requests) = 6
    /\ Cardinality(Started) = 2
    /\ Len(uploaded) = 1
    /\ \E f \in files : FileOf(f, uploaded[1])
    /\ dataset.t # "NoneType"
    /\ \E f \in files : FileOf(f, dataset) /\ ~FileOf(f, uploaded[1])

-----------------------------------------------------------------------------
(* C18 *)

\* the discovered codes whose filter_country output holds the feature at a
CountriesHolding(a, codes) ==
    {c \in codes :
        LET f == filter_country(feats, colls, data_by_disaster_dict, c)
        IN /\ f.exc = ""
           /\ a \in FeatureObjects(f.colls, f.dict)}

\* C18: each scraped feature whose region code is a text is in the
\* filter_country output of exactly one of the codes that
\* get_list_of_country_iso2s returns, the code taken from that feature.
C18_Partition ==
    Scraped =>
        LET r == get_list_of_country_iso2s(feats, colls, data_by_disaster_dict)
        IN r.exc = "" =>
              \A a \in {b \in ScrapedFeatures : HasCode(feats, b)} :
                  CountriesHolding(a, r.value) = {Prefix2(CodeOf(feats, a))}

====
